---- MODULE Spec2Model ----
(***************************************************************************)
(* Model of modelx/io/baseio.py: the bidirectional resource index          *)
(* (BiDict), the shared resources (BaseSharedIO), the specs (BaseIOSpec)   *)
(* and the manager (IOManager) that binds them.                            *)
(*                                                                         *)
(* Object identities are small integers: a resource is a number of IOs, a  *)
(* spec a number of Specs.  A path is the tuple of its parts, an absolute  *)
(* path starting with the root part "/".                                   *)
(***************************************************************************)
EXTENDS Integers, Sequences, FiniteSets, TLC

\* ---------------------------------------------------------------- bounds
NumIOs == 2
NumSpecs == 2
\* restore_io is applied while the index holds fewer than MaxKeys keys
MaxKeys == 2
\* is_in_root is applied to paths of at most MaxSegs parts
MaxSegs == 4

IOs == 1..NumIOs
Specs == 1..NumSpecs
NoIO == 0
NoSpec == 0
None == "None"
NoKey == <<>>
NoPath == <<>>

\* The groups callers pass (a model or a space); None is the index's own
\* group for absolute paths.
Groups == {"A", "B"}
Paths == {<<"/", "x">>, <<"x">>, <<"y">>}
\* The values a caller assigns to a spec, the destination roots of an
\* export.
Values == {"v", "w"}
Roots == {<<"/", "R">>}

VARIABLES
    ios,            \* IOManager.ios: the forward dict, in insertion order
    inverse,        \* IOManager.ios.inverse: resource -> key
    serializing,    \* IOManager.serializing: "None", "True" or "False"
    ioAlloc,        \* the BaseSharedIO objects constructed so far
    ioPath,         \* BaseSharedIO._path
    ioSpecs,        \* BaseSharedIO._specs (the specs, by identity)
    specAlloc,      \* the BaseIOSpec objects constructed so far
    specIO,         \* BaseIOSpec._io
    specMgr,        \* BaseIOSpec._manager: None or "M", the one manager
    last,           \* the last call: operation, outcome and arguments
    specValue,      \* the value a spec holds (BaseIOSpec.value)
    ioValue,        \* the content a resource has staged for writing
    files,          \* the files on disk, by destination path
    pickled,        \* the object graph captured by the last snapshot dump
    restored        \* the object graph rebuilt from `pickled`

\* The state the lifecycle operations never touch.
aux == <<specValue, ioValue, files, pickled, restored>>

vars == <<ios, inverse, serializing, ioAlloc, ioPath, ioSpecs,
          specAlloc, specIO, specMgr, last, aux>>

\* ---------------------------------------------------------------- helpers
\* An object graph outside the live one: the specs and resources it holds
\* and their fields.  NoPickle is the empty graph.
NoPickle ==
    [specs |-> {}, ios |-> {},
     specIO |-> [s \in Specs |-> NoIO],
     ioSpecs |-> [r \in IOs |-> {}],
     ioPath |-> [r \in IOs |-> NoPath]]

is_absolute(path) == Len(path) > 0 /\ path[1] = "/"

Call(op, res, spec, io, group, path) ==
    [op |-> op, res |-> res, spec |-> spec, io |-> io,
     group |-> group, path |-> path,
     \* the answers and the hook calls of the call, where a claim reads them
     rejecters |-> {}, hooks |-> <<>>]

\* The object a constructor call returns: an identity not in use.
NewId(free) == CHOOSE i \in free : \A j \in free : i <= j

\* dict: keys, membership, lookup (NoIO for a missing key), values
DictKeys(fwd) == {fwd[i][1] : i \in DOMAIN fwd}
DictValues(fwd) == {fwd[i][2] : i \in DOMAIN fwd}
DictGet(fwd, key) ==
    IF key \in DictKeys(fwd)
    THEN fwd[CHOOSE i \in DOMAIN fwd : fwd[i][1] = key][2]
    ELSE NoIO
\* dict.__setitem__: a present key keeps its place, a new key goes last
DictSet(fwd, key, value) ==
    IF key \in DictKeys(fwd)
    THEN [i \in DOMAIN fwd |->
            IF fwd[i][1] = key THEN <<key, value>> ELSE fwd[i]]
    ELSE Append(fwd, <<key, value>>)
DictDel(fwd, key) == SelectSeq(fwd, LAMBDA e : e[1] # key)
\* next(k for k, v in items() if v is io_, None): the first key of io_
FirstKeyOf(fwd, io_) ==
    IF io_ \in DictValues(fwd)
    THEN fwd[CHOOSE i \in DOMAIN fwd :
                /\ fwd[i][2] = io_
                /\ \A j \in DOMAIN fwd : fwd[j][2] = io_ => i <= j][1]
    ELSE NoKey

\* ---------------------------------------------------------------- is_in_root
\* A string is the tuple of its characters.  The parts a pathlib.Path
\* holds are names and "..", after "/" when the path is absolute.
PartNames == {"..", "a", "b"}
PathInputs ==
    LET rel == UNION {[1..k -> PartNames] : k \in 0..MaxSegs}
    IN rel \cup {<<"/">> \o q : q \in rel}

Chars(part) == IF part = ".." THEN <<".", ".">> ELSE <<part>>

RECURSIVE Join(_)
Join(parts) ==
    IF parts = <<>> THEN <<>>
    ELSE IF Len(parts) = 1 THEN Chars(parts[1])
    ELSE Chars(parts[1]) \o <<"/">> \o Join(Tail(parts))

\* path.as_posix(): "." for the empty path
as_posix(path) ==
    IF path = <<>> THEN <<".">>
    ELSE IF path[1] = "/" THEN <<"/">> \o Join(Tail(path))
    ELSE Join(path)

\* pos.split("/")
RECURSIVE str_split(_)
str_split(str) ==
    IF \A i \in DOMAIN str : str[i] # "/" THEN <<str>>
    ELSE LET i == CHOOSE k \in DOMAIN str :
                     str[k] = "/" /\ \A j \in 1..(k - 1) : str[j] # "/"
         IN <<SubSeq(str, 1, i - 1)>> \o str_split(SubSeq(str, i + 1, Len(str)))

\* A scan that looks at the level only when the segments are used up.
RECURSIVE ScanToEnd(_, _)
ScanToEnd(split, level) ==
    IF split = <<>> THEN (IF level < 0 THEN "False" ELSE "True")
    ELSE ScanToEnd(Tail(split),
                   IF Head(split) = <<".", ".">> THEN level - 1
                   ELSE IF Head(split) = <<".">> THEN level
                   ELSE level + 1)

\* The while loop of is_in_root, from `level`
RECURSIVE Scan(_, _)
Scan(split, level) ==
    IF split = <<>> THEN "True"
    ELSE LET item == Head(split)
             level1 == IF item = <<".", ".">> THEN level - 1
                       ELSE IF item = <<".">> THEN level
                       ELSE level + 1
         IN IF level1 < 0 THEN "False" ELSE Scan(Tail(split), level1)

is_in_root(path) == Scan(str_split(as_posix(path)), 0)

\* ---------------------------------------------------------------- BiDict
\* A BiDict value is [fwd, inv, err]: the two maps and the exception the
\* call raised ("ok" for none).
BiDict(fwd, inv) == [fwd |-> fwd, inv |-> inv, err |-> "ok"]
Raise(d, err) == [d EXCEPT !.err = err]

BiDict__setitem__(d, key, value) ==
    IF key \in DictKeys(d.fwd) /\ DictGet(d.fwd, key) = value
    THEN d
    ELSE IF key \in DictKeys(d.fwd) /\ d.inv[value] # NoKey
    THEN Raise(d, "ValueError")
    ELSE IF key \in DictKeys(d.fwd) /\ d.inv[DictGet(d.fwd, key)] = NoKey
    THEN Raise(d, "KeyError")
    ELSE LET inv1 == IF key \in DictKeys(d.fwd)
                     THEN [d.inv EXCEPT ![DictGet(d.fwd, key)] = NoKey]
                     ELSE d.inv
         IN [fwd |-> DictSet(d.fwd, key, value),
             inv |-> [inv1 EXCEPT ![value] = key],
             err |-> "ok"]

BiDict__delitem__(d, key) ==
    IF key \notin DictKeys(d.fwd) THEN Raise(d, "KeyError")
    ELSE IF d.inv[DictGet(d.fwd, key)] = NoKey THEN Raise(d, "KeyError")
    ELSE [fwd |-> DictDel(d.fwd, key),
          inv |-> [d.inv EXCEPT ![DictGet(d.fwd, key)] = NoKey],
          err |-> "ok"]

\* ---------------------------------------------------------------- IOManager
\* A key rule that forgets the group of a relative path.
_get_io_key_nogroup(io_group, path) == <<None, path>>

_get_io_key(io_group, path) ==
    IF is_absolute(path) THEN <<None, path>> ELSE <<io_group, path>>

_get_io(d, io_group, path) == DictGet(d.fwd, _get_io_key(io_group, path))

\* _new_io: construct the resource a_io with `path` and register it.
_new_io(d, a_io, io_group, path) ==
    IF _get_io(d, io_group, path) = NoIO
    THEN BiDict__setitem__(d, _get_io_key(io_group, path), a_io)
    ELSE Raise(d, "RuntimeError")

\* A _del_io that leaves the resource in the index.
_del_io_keeps(d, io_, specs) ==
    IF specs # {} THEN Raise(d, "RuntimeError") ELSE d

\* _del_io, for a resource with the dependents `specs`
_del_io(d, io_, specs) ==
    IF specs # {} THEN Raise(d, "RuntimeError")
    ELSE IF FirstKeyOf(d.fwd, io_) # NoKey
    THEN BiDict__delitem__(d, FirstKeyOf(d.fwd, io_))
    ELSE d

Index == BiDict(ios, inverse)
\* The dependents whose _can_add_other is consulted for a spec added to
\* the resource of (io_group, path), or to io_.
DependentsAt(io_group, path) ==
    IF _get_io(Index, io_group, path) = NoIO THEN {}
    ELSE ioSpecs[_get_io(Index, io_group, path)]
Dependents(io_) == ioSpecs[io_]
FreeIOs == IOs \ ioAlloc
FreeSpecs == Specs \ specAlloc

\* get_or_create_io as a value: the resource returned, the index after
\* the call and whether the resource was constructed by it.
GetOrCreate(d, io_group, path) ==
    IF _get_io(d, io_group, path) # NoIO
    THEN [io |-> _get_io(d, io_group, path), d |-> d, fresh |-> FALSE]
    ELSE [io |-> NewId(FreeIOs),
          d |-> _new_io(d, NewId(FreeIOs), io_group, path),
          fresh |-> TRUE]

get_or_create_io(io_group, path) ==
    /\ _get_io(Index, io_group, path) # NoIO \/ FreeIOs # {}
    /\ LET g == GetOrCreate(Index, io_group, path)
       IN /\ ios' = g.d.fwd
          /\ inverse' = g.d.inv
          /\ ioAlloc' = ioAlloc \cup {g.io}
          /\ ioPath' = IF g.fresh THEN [ioPath EXCEPT ![g.io] = path]
                       ELSE ioPath
          /\ last' = Call("get_or_create_io", g.d.err, NoSpec, g.io,
                          None, NoPath)
    /\ UNCHANGED aux
    /\ UNCHANGED <<serializing, ioSpecs, specAlloc, specIO, specMgr>>

\* BaseSharedIO._can_add_spec: every dependent's _can_add_other accepts;
\* `rejecters` are the specs whose _can_add_other answers False.
_can_add_spec(specs, rejecters) == \A c \in specs : c \notin rejecters

\* An add_spec that consults no dependent.
AddSpecUnchecked(specs, spec, rejecters) ==
    [specs |-> specs \cup {spec}, err |-> "ok"]

\* add_spec as a value: the dependents of io_ after the call, and the error
AddSpec(specs, spec, rejecters) ==
    IF spec \in specs THEN [specs |-> specs, err |-> "ok"]
    ELSE IF _can_add_spec(specs, rejecters)
    THEN [specs |-> specs \cup {spec}, err |-> "ok"]
    ELSE [specs |-> specs, err |-> "ValueError"]

\* An except clause that re-raises without the clean-up.
NewSpecNoRollback(d, specs, io_group, path) == d

\* The except clause of new_spec: the resource is dropped from the index
\* when it has no dependents.
NewSpecRollback(d, specs, io_group, path) ==
    IF specs = {}
    THEN BiDict__delitem__(d, _get_io_key(io_group, path))
    ELSE d

\* new_spec: loadOk is whether spec._on_load_value() returns normally.
new_spec(io_group, path, loadOk, rejecters) ==
    /\ FreeSpecs # {}
    /\ _get_io(Index, io_group, path) # NoIO \/ FreeIOs # {}
    /\ LET spec == NewId(FreeSpecs)
           g == GetOrCreate(Index, io_group, path)
           io_path == IF g.fresh THEN path ELSE ioPath[g.io]
           a == AddSpec(ioSpecs[g.io], spec, rejecters)
           failure == IF ~loadOk THEN "HookError" ELSE a.err
       IN IF failure = "ok"
          THEN /\ ios' = g.d.fwd
               /\ inverse' = g.d.inv
               /\ ioAlloc' = ioAlloc \cup {g.io}
               /\ ioPath' = [ioPath EXCEPT ![g.io] = io_path]
               /\ ioSpecs' = [ioSpecs EXCEPT ![g.io] = a.specs]
               /\ specAlloc' = specAlloc \cup {spec}
               /\ specIO' = [specIO EXCEPT ![spec] = g.io]
               /\ specMgr' = [specMgr EXCEPT ![spec] = "M"]
               /\ last' = Call("new_spec", "ok", spec, g.io, io_group, path)
          ELSE LET r == NewSpecRollback(g.d, ioSpecs[g.io], io_group, io_path)
               IN /\ ios' = r.fwd
                  /\ inverse' = r.inv
                  \* the spec, and a resource constructed for it that is
                  \* registered nowhere, are unreachable after the raise
                  /\ ioAlloc' = IF g.fresh /\ g.io \notin DictValues(r.fwd)
                                THEN ioAlloc ELSE ioAlloc \cup {g.io}
                  /\ ioPath' = IF g.fresh /\ g.io \in DictValues(r.fwd)
                               THEN [ioPath EXCEPT ![g.io] = path]
                               ELSE ioPath
                  /\ last' = Call("new_spec",
                                  IF r.err = "ok" THEN failure ELSE r.err,
                                  spec, g.io, io_group, path)
                  /\ UNCHANGED <<ioSpecs, specAlloc, specIO, specMgr>>
    /\ UNCHANGED aux
    /\ UNCHANGED serializing

\* add_spec(io_, spec)
add_spec(io_, spec, rejecters) ==
    /\ io_ \in ioAlloc
    /\ spec \in specAlloc
    /\ LET a == AddSpec(ioSpecs[io_], spec, rejecters)
       IN /\ ioSpecs' = [ioSpecs EXCEPT ![io_] = a.specs]
          /\ last' = [Call("add_spec", a.err, spec, io_, None, NoPath)
                          EXCEPT !.rejecters = rejecters]
    /\ UNCHANGED aux
    /\ UNCHANGED <<ios, inverse, serializing, ioAlloc, ioPath,
                   specAlloc, specIO, specMgr>>

\* A del_spec that leaves the retiring of the resource to a later sweep.
DelSpecLazy(d, a_io, specs, spec) == [specs |-> specs \ {spec}, d |-> d]

\* A del_spec that retires the resource without looking at what is left.
DelSpecUnguarded(d, a_io, specs, spec) ==
    IF spec \notin specs THEN [specs |-> specs, d |-> d]
    ELSE [specs |-> specs \ {spec},
          d |-> _del_io(d, a_io, specs \ {spec})]

\* del_spec as a value: the dependents of spec.io and the index after it
DelSpec(d, a_io, specs, spec) ==
    IF spec \notin specs THEN [specs |-> specs, d |-> d]
    ELSE IF specs \ {spec} # {} THEN [specs |-> specs \ {spec}, d |-> d]
    ELSE [specs |-> specs \ {spec},
          d |-> _del_io(d, a_io, specs \ {spec})]

del_spec(spec) ==
    /\ spec \in specAlloc
    /\ LET a_io == specIO[spec]
           r == DelSpec(Index, a_io, ioSpecs[a_io], spec)
       IN /\ ioSpecs' = [ioSpecs EXCEPT ![a_io] = r.specs]
          /\ ios' = r.d.fwd
          /\ inverse' = r.d.inv
          /\ last' = Call("del_spec", r.d.err, spec, a_io, None, NoPath)
    /\ UNCHANGED aux
    /\ UNCHANGED <<serializing, ioAlloc, ioPath, specAlloc, specIO, specMgr>>

\* An update_path that removes the old key before it looks at the new one.
UpdatePathDeleteFirst(d, io_, cur_path, path, hookOk) ==
    IF d.inv[io_] = NoKey
    THEN [d |-> d, path |-> cur_path, err |-> "KeyError"]
    ELSE LET key_old == d.inv[io_]
             key == _get_io_key(key_old[1], path)
             d1 == BiDict__delitem__(d, key_old)
             d2 == BiDict__setitem__(d1, key, io_)
         IN IF path = key_old[2]
            THEN [d |-> d, path |-> cur_path, err |-> "ok"]
            ELSE IF key \in DictKeys(d.fwd)
            THEN [d |-> BiDict(d1.fwd, d1.inv), path |-> cur_path,
                  err |-> "ValueError"]
            ELSE IF ~hookOk
            THEN [d |-> d1, path |-> cur_path, err |-> "HookError"]
            ELSE [d |-> BiDict(d2.fwd, d2.inv), path |-> path,
                  err |-> d2.err]

\* update_path as a value: the index, the resource's path and the error.
\* hookOk is whether io_._on_update_path(path) returns normally; the base
\* hook stores the path.
UpdatePath(d, io_, cur_path, path, hookOk) ==
    IF d.inv[io_] = NoKey
    THEN [d |-> d, path |-> cur_path, err |-> "KeyError"]
    ELSE LET key_old == d.inv[io_]
             group == key_old[1]
             path_old == key_old[2]
             key == _get_io_key(group, path)
             d1 == BiDict__delitem__(d, key_old)
             d2 == BiDict__setitem__(d1, key, io_)
         IN IF path = path_old
            THEN [d |-> d, path |-> cur_path, err |-> "ok"]
            ELSE IF key \in DictKeys(d.fwd)
            THEN [d |-> d, path |-> cur_path, err |-> "ValueError"]
            ELSE IF d1.err # "ok"
            THEN [d |-> d, path |-> cur_path, err |-> d1.err]
            ELSE IF ~hookOk
            THEN [d |-> d1, path |-> cur_path, err |-> "HookError"]
            ELSE [d |-> BiDict(d2.fwd, d2.inv), path |-> path,
                  err |-> d2.err]

update_path(io_, path, hookOk) ==
    /\ io_ \in ioAlloc
    /\ LET r == UpdatePath(Index, io_, ioPath[io_], path, hookOk)
       IN /\ ios' = r.d.fwd
          /\ inverse' = r.d.inv
          /\ ioPath' = [ioPath EXCEPT ![io_] = r.path]
          /\ last' = Call("update_path", r.err, NoSpec, io_, None, path)
    /\ UNCHANGED aux
    /\ UNCHANGED <<serializing, ioAlloc, ioSpecs, specAlloc, specIO, specMgr>>

\* An update_spec_value that replaces the spec's value before it asks the
\* resource.
UpdateSpecValueSpecFirst(sval, rval, value, canUpdate, ioHookOk, specHookOk) ==
    LET asked == <<"spec._can_update_value", value,
                   IF canUpdate THEN "True" ELSE "False">>
        onSpec == <<"spec._on_update_value", value,
                    IF specHookOk THEN "ok" ELSE "raised">>
        onIO == <<"io._on_update_value", value,
                  IF ioHookOk THEN "ok" ELSE "raised">>
    IN IF ~canUpdate
       THEN [sval |-> sval, rval |-> rval, hooks |-> <<asked>>,
             err |-> "ValueError"]
       ELSE IF ~specHookOk
       THEN [sval |-> sval, rval |-> rval, hooks |-> <<asked, onSpec>>,
             err |-> "HookError"]
       ELSE IF ~ioHookOk
       THEN [sval |-> value, rval |-> rval,
             hooks |-> <<asked, onSpec, onIO>>, err |-> "HookError"]
       ELSE [sval |-> value, rval |-> value,
             hooks |-> <<asked, onSpec, onIO>>, err |-> "ok"]

\* An update_spec_value that runs the hooks whatever the predicate says.
UpdateSpecValueUnguarded(sval, rval, value, canUpdate, ioHookOk, specHookOk) ==
    LET asked == <<"spec._can_update_value", value,
                   IF canUpdate THEN "True" ELSE "False">>
    IN [sval |-> value, rval |-> value,
        hooks |-> <<asked, <<"io._on_update_value", value, "ok">>,
                    <<"spec._on_update_value", value, "ok">> >>,
        err |-> IF canUpdate THEN "ok" ELSE "ValueError"]

\* update_spec_value as a value: the spec's value, the content staged in
\* its resource, the hook calls made, in order, and the error.  canUpdate
\* is the answer of spec._can_update_value, ioHookOk and specHookOk are
\* whether io._on_update_value and spec._on_update_value return normally;
\* a hook that returns has stored the value, a hook that raises has not.
UpdateSpecValue(sval, rval, value, canUpdate, ioHookOk, specHookOk) ==
    LET asked == <<"spec._can_update_value", value,
                   IF canUpdate THEN "True" ELSE "False">>
        onIO == <<"io._on_update_value", value,
                  IF ioHookOk THEN "ok" ELSE "raised">>
        onSpec == <<"spec._on_update_value", value,
                    IF specHookOk THEN "ok" ELSE "raised">>
    IN IF ~canUpdate
       THEN [sval |-> sval, rval |-> rval, hooks |-> <<asked>>,
             err |-> "ValueError"]
       ELSE IF ~ioHookOk
       THEN [sval |-> sval, rval |-> rval, hooks |-> <<asked, onIO>>,
             err |-> "HookError"]
       ELSE IF ~specHookOk
       THEN [sval |-> sval, rval |-> value,
             hooks |-> <<asked, onIO, onSpec>>, err |-> "HookError"]
       ELSE [sval |-> value, rval |-> value,
             hooks |-> <<asked, onIO, onSpec>>, err |-> "ok"]

update_spec_value(spec, value, canUpdate, ioHookOk, specHookOk) ==
    /\ spec \in specAlloc
    /\ LET io_ == specIO[spec]
           r == UpdateSpecValue(specValue[spec], ioValue[io_], value,
                                canUpdate, ioHookOk, specHookOk)
       IN /\ specValue' = [specValue EXCEPT ![spec] = r.sval]
          /\ ioValue' = [ioValue EXCEPT ![io_] = r.rval]
          /\ last' = [Call("update_spec_value", r.err, spec, io_,
                           None, NoPath) EXCEPT !.hooks = r.hooks]
    /\ UNCHANGED <<files, pickled, restored>>
    /\ UNCHANGED <<ios, inverse, serializing, ioAlloc, ioPath, ioSpecs,
                   specAlloc, specIO, specMgr>>

\* A destination rule that copies every resource under the root.
WritePathUnderRoot(root, io_path) ==
    IF is_absolute(io_path) THEN root \o Tail(io_path) ELSE root \o io_path

\* write_io: the destination of a resource with path io_path
WritePath(root, io_path) ==
    IF ~is_absolute(io_path) THEN root \o io_path ELSE io_path

\* path.parent
Parent(path) ==
    IF Len(path) > 1 THEN SubSeq(path, 1, Len(path) - 1) ELSE path

\* A write_ios that goes on after a failed write and raises at the end.
RECURSIVE WriteIOsContinue(_, _, _, _, _)
WriteIOsContinue(vals, i, root, failAt, stage) ==
    IF i > Len(vals)
    THEN [hooks |-> <<>>, written |-> {},
          err |-> IF failAt = 0 THEN "ok" ELSE "HookError"]
    ELSE LET dest == WritePath(root, ioPath[vals[i]])
             rest == WriteIOsContinue(vals, i + 1, root, failAt, stage)
             out == IF failAt = i THEN "raised" ELSE "ok"
         IN [hooks |-> << <<"mkdir", Parent(dest), "ok", vals[i]>>,
                          <<"io._on_write", dest, out, vals[i]>> >>
                       \o rest.hooks,
             written |-> (IF failAt = i THEN {} ELSE {dest})
                         \cup rest.written,
             err |-> rest.err]

\* write_ios as a value, from the i-th registered resource on: the calls
\* made, in order, the files written and the error.  The write of the
\* failAt-th resource fails (0: none does), in mkdir or in _on_write as
\* `stage` says; a write that fails leaves no file.
RECURSIVE WriteIOs(_, _, _, _, _)
WriteIOs(vals, i, root, failAt, stage) ==
    IF i > Len(vals)
    THEN [hooks |-> <<>>, written |-> {}, err |-> "ok"]
    ELSE LET io_ == vals[i]
             dest == WritePath(root, ioPath[io_])
             mkOk == ~(failAt = i /\ stage = "mkdir")
             wrOk == ~(failAt = i /\ stage = "write")
             mk == <<"mkdir", Parent(dest),
                     IF mkOk THEN "ok" ELSE "raised", io_>>
             wr == <<"io._on_write", dest,
                     IF wrOk THEN "ok" ELSE "raised", io_>>
             rest == WriteIOs(vals, i + 1, root, failAt, stage)
         IN IF ~mkOk
            THEN [hooks |-> <<mk>>, written |-> {}, err |-> "OSError"]
            ELSE IF ~wrOk
            THEN [hooks |-> <<mk, wr>>, written |-> {}, err |-> "HookError"]
            ELSE [hooks |-> <<mk, wr>> \o rest.hooks,
                  written |-> {dest} \cup rest.written,
                  err |-> rest.err]

write_ios(root, failAt, stage) ==
    /\ failAt \in 0..Len(ios)
    /\ LET r == WriteIOs([i \in DOMAIN ios |-> ios[i][2]], 1, root,
                         failAt, stage)
       IN /\ files' = files \cup r.written
          /\ last' = [Call("write_ios", r.err, NoSpec, NoIO, None, root)
                          EXCEPT !.hooks = r.hooks]
    /\ UNCHANGED <<specValue, ioValue, pickled, restored>>
    /\ UNCHANGED <<ios, inverse, serializing, ioAlloc, ioPath, ioSpecs,
                   specAlloc, specIO, specMgr>>

\* restore_io as a value: the index after the call
RestoreIO(d, io_group, io_, path) ==
    IF _get_io(d, io_group, path) = NoIO
    THEN BiDict__setitem__(d, _get_io_key(io_group, path), io_)
    ELSE d

restore_io(io_group, io_) ==
    /\ io_ \in ioAlloc
    /\ Len(ios) < MaxKeys
    /\ LET d == RestoreIO(Index, io_group, io_, ioPath[io_])
       IN /\ ios' = d.fwd
          /\ inverse' = d.inv
          /\ last' = Call("restore_io", d.err, NoSpec, io_, None, NoPath)
    /\ UNCHANGED aux
    /\ UNCHANGED <<serializing, ioAlloc, ioPath, ioSpecs,
                   specAlloc, specIO, specMgr>>

\* ---------------------------------------------------------------- BaseIOSpec
\* __getstate__: the exception raised ("ok" for none), the hooks
\* _on_serialize and _on_pickle returning normally.
GetState(mode) ==
    IF mode \in {"True", "False"} THEN "ok" ELSE "RuntimeError"

getstate(spec) ==
    /\ spec \in specAlloc
    /\ last' = Call("getstate", GetState(serializing), spec,
                    specIO[spec], None, NoPath)
    /\ UNCHANGED aux
    /\ UNCHANGED <<ios, inverse, serializing, ioAlloc, ioPath, ioSpecs,
                   specAlloc, specIO, specMgr>>

\* A __setstate__ that leaves the registration to its caller.
SetStateNoRegister(mode, specs, spec, rejecters) ==
    [specs |-> specs, err |-> "ok"]

\* __setstate__ as a value: the dependents of state["_io"] after the call
\* and the exception raised, the hooks _on_unserialize and _on_unpickle
\* returning normally.
SetState(mode, specs, spec, rejecters) ==
    IF mode = "True"
    THEN AddSpec(specs, spec, rejecters)
    ELSE IF mode = "False"
    THEN [specs |-> specs, err |-> "ok"]
    ELSE [specs |-> specs, err |-> "ok"]

\* __setstate__ of a spec being unpickled, with state["manager"] the
\* manager and state["_io"] the resource io_.  A spec whose __setstate__
\* raises is never handed to the caller.
setstate(io_, rejecters) ==
    /\ FreeSpecs # {}
    /\ io_ \in ioAlloc
    /\ LET spec == NewId(FreeSpecs)
           r == SetState(serializing, ioSpecs[io_], spec, rejecters)
       IN /\ ioSpecs' = [ioSpecs EXCEPT ![io_] = r.specs]
          /\ specAlloc' = IF r.err = "ok" THEN specAlloc \cup {spec}
                          ELSE specAlloc
          /\ specIO' = IF r.err = "ok" THEN [specIO EXCEPT ![spec] = io_]
                       ELSE specIO
          /\ specMgr' = IF r.err = "ok" THEN [specMgr EXCEPT ![spec] = "M"]
                        ELSE specMgr
          /\ last' = Call("setstate", r.err, spec, io_, None, NoPath)
    /\ UNCHANGED aux
    /\ UNCHANGED <<ios, inverse, serializing, ioAlloc, ioPath>>

\* The portable reader restoring one spec: it resolves the resource of
\* (io_group, path) with get_or_create_io, creating it if absent, and
\* hands it to the new spec's __setstate__ as state["_io"].  The resource
\* stays registered when __setstate__ raises.
read_spec(io_group, path, rejecters) ==
    /\ FreeSpecs # {}
    /\ _get_io(Index, io_group, path) # NoIO \/ FreeIOs # {}
    /\ LET spec == NewId(FreeSpecs)
           g == GetOrCreate(Index, io_group, path)
           r == SetState(serializing, ioSpecs[g.io], spec, rejecters)
       IN /\ ios' = g.d.fwd
          /\ inverse' = g.d.inv
          /\ ioAlloc' = ioAlloc \cup {g.io}
          /\ ioPath' = IF g.fresh THEN [ioPath EXCEPT ![g.io] = path]
                       ELSE ioPath
          /\ ioSpecs' = [ioSpecs EXCEPT ![g.io] = r.specs]
          /\ specAlloc' = IF r.err = "ok" THEN specAlloc \cup {spec}
                          ELSE specAlloc
          /\ specIO' = IF r.err = "ok" THEN [specIO EXCEPT ![spec] = g.io]
                       ELSE specIO
          /\ specMgr' = IF r.err = "ok" THEN [specMgr EXCEPT ![spec] = "M"]
                        ELSE specMgr
          /\ last' = Call("read_spec", r.err, spec, g.io, io_group, path)
    /\ UNCHANGED aux
    /\ UNCHANGED serializing

\* ---------------------------------------------------------------- snapshot
\* BaseIOSpec.__getstate__: the state dict handed to _on_pickle
SpecGetState(spec) == [manager |-> specMgr[spec], _io |-> specIO[spec]]

\* BaseSharedIO.__getstate__
IOGetState(io_) ==
    [path |-> ioPath[io_], specs |-> ioSpecs[io_], manager |-> "M"]

\* A BaseSharedIO.__setstate__ that starts with no dependents.
IOSetStateNoSpecs(state) == [path |-> state.path, specs |-> {}]

\* BaseSharedIO.__setstate__: the fields _path and _specs, the latter
\* keyed by the identity of the specs in state["specs"]
IOSetState(state) == [path |-> state.path, specs |-> state.specs]

\* The specs a dump of `roots` reaches: a spec's state refers to its
\* resource, a resource's state to its dependents.
RECURSIVE Reach(_)
Reach(S) ==
    LET next == S \cup UNION {IOGetState(specIO[s]).specs : s \in S}
    IN IF next = S THEN S ELSE Reach(next)

\* One dump of the specs `roots` in snapshot mode: every object reached,
\* once, with its state.
Dump(roots) ==
    LET S == Reach(roots)
        R == {SpecGetState(s)._io : s \in S}
    IN [specs |-> S, ios |-> R,
        specIO |-> [s \in Specs |->
                      IF s \in S THEN SpecGetState(s)._io ELSE NoIO],
        ioSpecs |-> [r \in IOs |->
                       IF r \in R THEN IOGetState(r).specs ELSE {}],
        ioPath |-> [r \in IOs |->
                      IF r \in R THEN IOGetState(r).path ELSE NoPath]]

\* The object the load constructs for the captured object x: one new
\* object per captured object, the k-th captured being the k-th built.
Memo(objs, x) == Cardinality({y \in objs : y <= x})
Captured(objs, k) == CHOOSE x \in objs : Memo(objs, x) = k

\* One load of the graph P: each object is built once and its
\* __setstate__ is given its state, references replaced by the objects
\* built for them.
Load(P) ==
    LET nS == Cardinality(P.specs)
        nR == Cardinality(P.ios)
        ioState(k) ==
            IOSetState([path |-> P.ioPath[Captured(P.ios, k)],
                        specs |-> {Memo(P.specs, c) :
                                     c \in P.ioSpecs[Captured(P.ios, k)]}])
    IN [specs |-> 1..nS, ios |-> 1..nR,
        specIO |-> [k \in Specs |->
                      IF k <= nS
                      THEN Memo(P.ios, P.specIO[Captured(P.specs, k)])
                      ELSE NoIO],
        ioSpecs |-> [k \in IOs |->
                       IF k <= nR THEN ioState(k).specs ELSE {}],
        ioPath |-> [k \in IOs |->
                      IF k <= nR THEN ioState(k).path ELSE NoPath]]

\* A snapshot dump of the specs `roots`.  __getstate__ raises with the
\* mode unset; in portable mode the state is what _on_serialize makes of
\* it, which no snapshot load reads.
dump(roots) ==
    /\ roots # {} /\ roots \subseteq specAlloc
    /\ serializing # "True"
    /\ pickled' = IF GetState(serializing) = "ok" THEN Dump(roots)
                  ELSE pickled
    /\ last' = Call("dump", GetState(serializing), NoSpec, NoIO, None, NoPath)
    /\ UNCHANGED <<specValue, ioValue, files, restored>>
    /\ UNCHANGED <<ios, inverse, serializing, ioAlloc, ioPath, ioSpecs,
                   specAlloc, specIO, specMgr>>

\* A snapshot load of the last dump; the specs' __setstate__ runs
\* _on_unpickle and registers nothing.
load ==
    /\ pickled.specs # {}
    /\ serializing # "True"
    /\ restored' = Load(pickled)
    /\ last' = Call("load", "ok", NoSpec, NoIO, None, NoPath)
    /\ UNCHANGED <<specValue, ioValue, files, pickled>>
    /\ UNCHANGED <<ios, inverse, serializing, ioAlloc, ioPath, ioSpecs,
                   specAlloc, specIO, specMgr>>

\* A call of is_in_root
is_in_root_call(path) ==
    /\ last' = Call("is_in_root", is_in_root(path), NoSpec, NoIO, None, path)
    /\ UNCHANGED aux
    /\ UNCHANGED <<ios, inverse, serializing, ioAlloc, ioPath, ioSpecs,
                   specAlloc, specIO, specMgr>>

\* IOManager.serializing is "set from external", around a save or a load.
set_serializing(mode) ==
    /\ mode # serializing
    /\ serializing' = mode
    /\ last' = Call("set_serializing", "ok", NoSpec, NoIO, None, NoPath)
    /\ UNCHANGED aux
    /\ UNCHANGED <<ios, inverse, ioAlloc, ioPath, ioSpecs,
                   specAlloc, specIO, specMgr>>

\* ---------------------------------------------------------------- behaviour
Init ==
    /\ ios = <<>>
    /\ inverse = [r \in IOs |-> NoKey]
    /\ serializing = None
    /\ ioAlloc = {}
    /\ ioPath = [r \in IOs |-> NoPath]
    /\ ioSpecs = [r \in IOs |-> {}]
    /\ specAlloc = {}
    /\ specIO = [s \in Specs |-> NoIO]
    /\ specMgr = [s \in Specs |-> None]
    /\ last = Call("init", "ok", NoSpec, NoIO, None, NoPath)
    /\ specValue = [s \in Specs |-> None]
    /\ ioValue = [r \in IOs |-> None]
    /\ files = {}
    /\ pickled = NoPickle
    /\ restored = NoPickle

\* The lifecycle operations on specs and resources.
NextLife ==
    \/ \E g \in Groups, p \in Paths, ok \in BOOLEAN :
          \E rej \in SUBSET DependentsAt(g, p) : new_spec(g, p, ok, rej)
    \/ \E r \in IOs, s \in Specs :
          \E rej \in SUBSET Dependents(r) : add_spec(r, s, rej)
    \/ \E s \in Specs : del_spec(s)
    \/ \E r \in IOs, p \in Paths, ok \in BOOLEAN : update_path(r, p, ok)

\* The serialization hooks of a spec and the mode they run under.
NextSerial ==
    \/ \E s \in Specs : getstate(s)
    \/ \E r \in IOs : \E rej \in SUBSET Dependents(r) : setstate(r, rej)
    \/ \E m \in {None, "True", "False"} : set_serializing(m)

\* The manager's contract of the design: the lifecycle operations and
\* get_or_create_io.
NextAPI ==
    \/ NextLife
    \/ \E g \in Groups, p \in Paths : get_or_create_io(g, p)

\* The operations that insert into and remove from the index, restore_io
\* among them.
NextIndex ==
    \/ \E g \in Groups, p \in Paths, ok \in BOOLEAN :
          \E rej \in SUBSET DependentsAt(g, p) : new_spec(g, p, ok, rej)
    \/ \E s \in Specs : del_spec(s)
    \/ \E r \in IOs, p \in Paths, ok \in BOOLEAN : update_path(r, p, ok)
    \/ \E g \in Groups, r \in IOs : restore_io(g, r)

\* Specs created and removed, and their values replaced.
NextUpdate ==
    \/ \E g \in Groups, p \in Paths, ok \in BOOLEAN :
          \E rej \in SUBSET DependentsAt(g, p) : new_spec(g, p, ok, rej)
    \/ \E s \in Specs : del_spec(s)
    \/ \E s \in Specs, v \in Values, can \in BOOLEAN,
          ioOk \in BOOLEAN, specOk \in BOOLEAN :
          update_spec_value(s, v, can, ioOk, specOk)

\* Resources created, renamed and retired, and exported.
NextWrite ==
    \/ \E g \in Groups, p \in Paths, ok \in BOOLEAN :
          \E rej \in SUBSET DependentsAt(g, p) : new_spec(g, p, ok, rej)
    \/ \E s \in Specs : del_spec(s)
    \/ \E r \in IOs, p \in Paths, ok \in BOOLEAN : update_path(r, p, ok)
    \/ \E root \in Roots, f \in 0..NumIOs, st \in {"mkdir", "write"} :
          write_ios(root, f, st)

\* The lifecycle of specs and resources with the portable reader.
NextPortable ==
    \/ \E g \in Groups, p \in Paths, ok \in BOOLEAN :
          \E rej \in SUBSET DependentsAt(g, p) : new_spec(g, p, ok, rej)
    \/ \E s \in Specs : del_spec(s)
    \/ \E r \in IOs, p \in Paths, ok \in BOOLEAN : update_path(r, p, ok)
    \/ \E m \in {None, "True", "False"} : set_serializing(m)
    \/ \E g \in Groups, p \in Paths :
          \E rej \in SUBSET DependentsAt(g, p) : read_spec(g, p, rej)

\* Specs created and removed, and snapshots taken and loaded.
NextSnapshot ==
    \/ \E g \in Groups, p \in Paths, ok \in BOOLEAN :
          \E rej \in SUBSET DependentsAt(g, p) : new_spec(g, p, ok, rej)
    \/ \E s \in Specs : del_spec(s)
    \/ \E m \in {None, "True", "False"} : set_serializing(m)
    \/ \E roots \in SUBSET Specs : dump(roots)
    \/ load

\* The manager's operations on the index and the dependents, restore_io
\* among them, over an absolute and a relative path.
PublicPaths == {<<"/", "x">>, <<"x">>}
NextPublic ==
    \/ \E g \in Groups, p \in PublicPaths, ok \in BOOLEAN :
          \E rej \in SUBSET DependentsAt(g, p) : new_spec(g, p, ok, rej)
    \/ \E r \in IOs, s \in Specs :
          \E rej \in SUBSET Dependents(r) : add_spec(r, s, rej)
    \/ \E s \in Specs : del_spec(s)
    \/ \E r \in IOs, p \in PublicPaths, ok \in BOOLEAN :
          update_path(r, p, ok)
    \/ \E g \in Groups, p \in PublicPaths : get_or_create_io(g, p)
    \/ \E g \in Groups, r \in IOs : restore_io(g, r)

\* The path-safety helper, applied to any path.
NextPath == \E path \in PathInputs : is_in_root_call(path)

\* Resources created, renamed and retired through their specs.
NextKeys ==
    \/ \E g \in Groups, p \in Paths, ok \in BOOLEAN :
          \E rej \in SUBSET DependentsAt(g, p) : new_spec(g, p, ok, rej)
    \/ \E s \in Specs : del_spec(s)
    \/ \E r \in IOs, p \in Paths, ok \in BOOLEAN : update_path(r, p, ok)

\* Every operation.
Next ==
    \/ NextAPI
    \/ NextSerial
    \/ \E g \in Groups, r \in IOs : restore_io(g, r)
    \/ NextUpdate
    \/ NextWrite
    \/ NextPortable
    \/ NextSnapshot
    \/ NextPath

Spec == Init /\ [][Next]_vars
\* The lifecycle operations with get_or_create_io
SpecAPI == Init /\ [][NextAPI]_vars
\* The lifecycle operations alone
SpecLife == Init /\ [][NextLife]_vars
\* The lifecycle operations with the serialization hooks
SpecCore == Init /\ [][NextLife \/ NextSerial]_vars
\* The operations that change the index
SpecIndex == Init /\ [][NextIndex]_vars
\* The index and its export
SpecWrite == Init /\ [][NextWrite]_vars
\* The portable read
SpecPortable == Init /\ [][NextPortable]_vars
\* The snapshot round trip
SpecSnapshot == Init /\ [][NextSnapshot]_vars
\* The lifecycle operations with get_or_create_io and restore_io
SpecPublic == Init /\ [][NextPublic]_vars
\* The path-safety helper
SpecPath == Init /\ [][NextPath]_vars
\* new_spec, del_spec and update_path
SpecKeys == Init /\ [][NextKeys]_vars
\* Specs and their values
SpecUpdate == Init /\ [][NextUpdate]_vars

\* ---------------------------------------------------------------- checks
\* IOManager._check_sanity and the checks it calls, as predicates that
\* hold when no assertion fails and nothing raises.
BaseIOSpec_check_sanity(spec) ==
    /\ specIO[spec] # NoIO
    /\ spec \in ioSpecs[specIO[spec]]
    /\ specIO[spec] \in DictValues(ios)
    /\ specMgr[spec] = "M"

BaseSharedIO_check_sanity(io_) ==
    /\ ioPath[io_] = FirstKeyOf(ios, io_)[2]
    /\ \A spec \in ioSpecs[io_] :
          specIO[spec] = io_ /\ BaseIOSpec_check_sanity(spec)

IOManager_check_sanity ==
    /\ Len(ios) = Cardinality(DictValues(ios))
    /\ \A a_io \in DictValues(ios) : BaseSharedIO_check_sanity(a_io)

\* The keys a resource is registered under.
KeysOf(fwd, io_) == {fwd[i][1] : i \in {j \in DOMAIN fwd : fwd[j][2] = io_}}

IndexAgrees == \A i \in DOMAIN ios : inverse[ios[i][2]] = ios[i][1]

\* C2: every key k of the forward map satisfies inverse[forward[k]] = k,
\* so no resource is registered under two keys at once.
C2_IndexConsistent ==
    IndexAgrees /\ \A io_ \in DictValues(ios) : Cardinality(KeysOf(ios, io_)) = 1

\* C3: a failed new_spec rolls back: the spec is in no dependent set, a
\* resource constructed by the call has its key absent from the index, a
\* resource that was there before and has dependents keeps its key and
\* its dependents, and the failure raised is the hook's or add_spec's.
C3_FailedNewSpecRollsBack ==
    [][(last'.op = "new_spec" /\ last'.res # "ok") =>
        LET key == _get_io_key(last'.group, last'.path)
            io_ == last'.io
        IN /\ \A r \in IOs : last'.spec \notin ioSpecs'[r]
           /\ last'.spec \notin specAlloc'
           /\ io_ \notin ioAlloc =>
                 /\ key \notin DictKeys(ios')
                 /\ ios' = ios /\ inverse' = inverse
           /\ (io_ \in ioAlloc /\ ioSpecs[io_] # {}) =>
                 /\ DictGet(ios', key) = io_
                 /\ ios' = ios /\ inverse' = inverse
                 /\ ioSpecs' = ioSpecs
           /\ last'.res \in {"HookError", "ValueError"}
           /\ last'.res = "ValueError" => ioSpecs[io_] # {}]_vars

\* C3 witness: _on_load_value raised for a spec whose resource the call
\* had constructed, and the key is not in the index.
C3_Witness ==
    /\ last.op = "new_spec" /\ last.res = "HookError"
    /\ last.io \notin ioAlloc
    /\ _get_io_key(last.group, last.path) \notin DictKeys(ios)
    /\ ios # <<>>

\* The resource io_ is registered and the key that `path` resolves to, in
\* the group of io_'s own key, is held by another resource.
Collides(io_, path) ==
    /\ inverse[io_] # NoKey
    /\ _get_io_key(inverse[io_][1], path) \in DictKeys(ios)
    /\ DictGet(ios, _get_io_key(inverse[io_][1], path)) # io_

\* C4: update_path of a resource to a path whose key another resource
\* holds raises and changes nothing: the forward map, the inverse map and
\* every resource's path are as before the call.
C4_CollisionChangesNothing ==
    [][\A io_ \in ioAlloc :
        (/\ last'.op = "update_path" /\ last'.io = io_
         /\ Collides(io_, last'.path)) =>
           /\ last'.res = "ValueError"
           /\ ios' = ios /\ inverse' = inverse /\ ioPath' = ioPath
           /\ ioSpecs' = ioSpecs]_vars

\* C4 witness: an update_path raised ValueError with two resources
\* registered, the one renamed and the one holding the key.
C4_Witness ==
    /\ last.op = "update_path" /\ last.res = "ValueError"
    /\ Collides(last.io, last.path)
    /\ Cardinality(DictValues(ios)) = 2

\* C5: with the serialization mode unset, __getstate__ and __setstate__
\* both raise; neither completes normally.
C5_UnsetModeRaises ==
    (last.op \in {"getstate", "setstate"} /\ serializing = None)
        => last.res # "ok"

\* C6: two successful new_spec calls in a row with the same path and
\* different groups bind their specs to one resource, under the key
\* (None, path), when the path is absolute, and to two resources, under
\* the keys (A, path) and (B, path), when it is relative.
C6_SharingAndIsolation ==
    [][(/\ last.op = "new_spec" /\ last.res = "ok"
        /\ last'.op = "new_spec" /\ last'.res = "ok"
        /\ last'.path = last.path /\ last'.group # last.group) =>
           IF is_absolute(last.path)
           THEN /\ specIO'[last.spec] = specIO'[last'.spec]
                /\ DictGet(ios', <<None, last.path>>) = specIO'[last.spec]
           ELSE /\ specIO'[last.spec] # specIO'[last'.spec]
                /\ DictGet(ios', <<last.group, last.path>>)
                      = specIO'[last.spec]
                /\ DictGet(ios', <<last'.group, last.path>>)
                      = specIO'[last'.spec]]_vars

\* C6 witness: the second of two new_spec calls with one relative path
\* and two groups has returned, each spec on a resource of its own.
C6_Witness ==
    /\ last.op = "new_spec" /\ last.res = "ok" /\ ~is_absolute(last.path)
    /\ \E s \in specAlloc \ {last.spec} :
          /\ specIO[s] # last.io
          /\ ioPath[specIO[s]] = last.path
          /\ s \in ioSpecs[specIO[s]]
          /\ specIO[s] \in DictValues(ios)

\* C7: del_spec of a spec registered with its resource removes it from
\* the dependents, and the resource leaves the index in the same call if
\* and only if no dependent is left; with dependents left the index is as
\* before.
C7_ReclaimOnLastDependent ==
    [][\A s \in specAlloc :
        (/\ last'.op = "del_spec" /\ last'.spec = s
         /\ s \in ioSpecs[specIO[s]]) =>
           LET io_ == specIO[s]
           IN /\ ioSpecs' = [ioSpecs EXCEPT ![io_] = ioSpecs[io_] \ {s}]
              /\ ioSpecs'[io_] # {} => (ios' = ios /\ inverse' = inverse)
              /\ ioSpecs'[io_] = {} =>
                    /\ io_ \notin DictValues(ios')
                    /\ inverse'[io_] = NoKey
                    /\ KeysOf(ios, io_) # {} =>
                          ios' = DictDel(ios, inverse[io_])
              /\ last'.res = "ok"]_vars

\* C7 witness: del_spec removed one of two dependents and the resource is
\* still registered, with the other one.
C7_Witness ==
    /\ last.op = "del_spec" /\ last.res = "ok"
    /\ specIO[last.spec] = last.io
    /\ last.spec \notin ioSpecs[last.io]
    /\ Cardinality(ioSpecs[last.io]) = 1
    /\ last.io \in DictValues(ios)

\* C8: every spec in the dependents of a resource has that resource as
\* its io and the resource's manager as its manager.
C8_BackReference ==
    \A io_ \in ioAlloc : \A s \in ioSpecs[io_] :
        specIO[s] = io_ /\ specMgr[s] = "M"

\* C9: update_path to a free key leaves the resource under exactly one
\* key: the new key with the new path when it returns, the old key with
\* the old path when it raises.
C9_RenameAtomic ==
    [][\A io_ \in ioAlloc :
        (/\ last'.op = "update_path" /\ last'.io = io_
         /\ inverse[io_] # NoKey
         /\ last'.path # inverse[io_][2]
         /\ _get_io_key(inverse[io_][1], last'.path) \notin DictKeys(ios)) =>
           IF last'.res = "ok"
           THEN /\ KeysOf(ios', io_)
                      = {_get_io_key(inverse[io_][1], last'.path)}
                /\ ioPath'[io_] = last'.path
           ELSE /\ KeysOf(ios', io_) = {inverse[io_]}
                /\ ioPath'[io_] = ioPath[io_]]_vars

\* What the invariant check promises to have verified.
NoDuplicateResource == \A io_ \in DictValues(ios) :
    Cardinality(KeysOf(ios, io_)) = 1
KeyMatchesPath == \A i \in DOMAIN ios : ios[i][1][2] = ioPath[ios[i][2]]
DependentsBackReference ==
    \A io_ \in DictValues(ios) : \A s \in ioSpecs[io_] :
        specIO[s] = io_ /\ specMgr[s] = "M"

\* C10: IOManager._check_sanity passes only in states where the forward
\* and inverse maps agree, no resource is under two keys, every key's
\* path is its resource's path and every dependent refers back to its
\* resource and manager.
C10_CheckComplete ==
    IOManager_check_sanity =>
        /\ IndexAgrees
        /\ NoDuplicateResource
        /\ KeyMatchesPath
        /\ DependentsBackReference

\* C11: add_spec of a spec already among the resource's dependents changes
\* nothing and raises nothing; add_spec of a new spec adds it when every
\* dependent's _can_add_other accepts it, and otherwise raises ValueError
\* with the dependents and the index unchanged.
C11_AddSpecIdempotentOrRejects ==
    [][last'.op = "add_spec" =>
        LET io_ == last'.io
            spec == last'.spec
            accepted == \A c \in ioSpecs[io_] : c \notin last'.rejecters
        IN /\ ios' = ios /\ inverse' = inverse /\ ioPath' = ioPath
           /\ specIO' = specIO
           /\ IF spec \in ioSpecs[io_]
              THEN last'.res = "ok" /\ ioSpecs' = ioSpecs
              ELSE IF accepted
              THEN /\ last'.res = "ok"
                   /\ ioSpecs' = [ioSpecs EXCEPT ![io_] = @ \cup {spec}]
              ELSE last'.res = "ValueError" /\ ioSpecs' = ioSpecs]_vars

\* C11 witness: add_spec of a spec new to the resource was rejected by a
\* dependent, and the spec is not among the dependents.
C11_Witness ==
    /\ last.op = "add_spec" /\ last.res = "ValueError"
    /\ last.spec \notin ioSpecs[last.io]
    /\ ioSpecs[last.io] \cap last.rejecters # {}
    /\ last.io \in DictValues(ios)

\* The hook calls of the last call that are calls of `name`, by position.
HookCalls(call, name) ==
    {i \in DOMAIN call.hooks : call.hooks[i][1] = name}

\* C12: update_spec_value with _can_update_value answering False raises,
\* calls neither the resource's nor the spec's _on_update_value, and
\* leaves the spec's value and the resource's content as they were.
C12_RejectedUpdateChangesNothing ==
    [][(/\ last'.op = "update_spec_value"
        /\ last'.hooks[1][1] = "spec._can_update_value"
        /\ last'.hooks[1][3] = "False") =>
           /\ last'.res = "ValueError"
           /\ HookCalls(last', "io._on_update_value") = {}
           /\ HookCalls(last', "spec._on_update_value") = {}
           /\ specValue' = specValue /\ ioValue' = ioValue
           /\ ios' = ios /\ inverse' = inverse /\ ioSpecs' = ioSpecs]_vars

\* C12 witness: an update of a spec that holds a value, with a different
\* value, was rejected.
C12_Witness ==
    /\ last.op = "update_spec_value" /\ last.res = "ValueError"
    /\ last.hooks[1][3] = "False"
    /\ specValue[last.spec] \in Values
    /\ specValue[last.spec] # last.hooks[1][2]

\* C13: in an accepted update_spec_value, spec._on_update_value is called
\* only after io._on_update_value has returned, so the spec's value is
\* replaced only then; when the resource hook raises, the spec hook is
\* not called, the spec's value stays and the error propagates.
C13_ResourceHookFirst ==
    [][(/\ last'.op = "update_spec_value"
        /\ last'.hooks[1][3] = "True") =>
           LET onIO == HookCalls(last', "io._on_update_value")
               onSpec == HookCalls(last', "spec._on_update_value")
           IN /\ Cardinality(onIO) = 1
              /\ \A j \in onSpec : \E i \in onIO :
                    i < j /\ last'.hooks[i][3] = "ok"
              /\ specValue' # specValue =>
                    /\ onSpec # {}
                    /\ ioValue'[last'.io] = specValue'[last'.spec]
              /\ (\E i \in onIO : last'.hooks[i][3] = "raised") =>
                    /\ onSpec = {}
                    /\ specValue' = specValue
                    /\ last'.res = "HookError"
              /\ last'.res = "ok" =>
                    /\ Cardinality(onSpec) = 1
                    /\ specValue'[last'.spec] = last'.hooks[1][2]]_vars

\* C13 witness: the resource hook raised in an accepted update of a spec
\* that holds another value, and the spec still holds it.
C13_Witness ==
    /\ last.op = "update_spec_value" /\ last.res = "HookError"
    /\ last.hooks[1][3] = "True"
    /\ Len(last.hooks) = 2 /\ last.hooks[2][3] = "raised"
    /\ specValue[last.spec] \in Values \ {last.hooks[1][2]}

\* The destination the design gives a resource path under a root.
Destination(root, path) == IF path[1] = "/" THEN path ELSE root \o path

\* C14: when the write of a registered resource fails in write_ios, the
\* error propagates; the resources before it in the index's order were
\* written and their files are on disk, no call was made for a resource
\* after it, no file was removed, and the index and the dependents are
\* unchanged.
C14_WriteAbortsOnFirstFailure ==
    [][(last'.op = "write_ios" /\ last'.res # "ok") =>
        LET h == last'.hooks
            n == Cardinality(HookCalls(last', "mkdir"))
        IN /\ n \in 1..Len(ios)
           /\ h[Len(h)][3] = "raised" /\ h[Len(h)][4] = ios[n][2]
           /\ \A j \in 1..(Len(h) - 1) : h[j][3] = "ok"
           /\ \A i \in 1..(n - 1) :
                 LET dest == Destination(last'.path, ioPath[ios[i][2]])
                 IN /\ \E j \in HookCalls(last', "io._on_write") :
                          h[j] = <<"io._on_write", dest, "ok", ios[i][2]>>
                    /\ dest \in files'
           /\ \A i \in (n + 1)..Len(ios) :
                 \A j \in DOMAIN h : h[j][4] # ios[i][2]
           /\ files \subseteq files'
           /\ ios' = ios /\ inverse' = inverse /\ ioSpecs' = ioSpecs
           /\ ioPath' = ioPath]_vars

\* C14 witness: the write of the second of two registered resources
\* failed, with the file of the first on disk.
C14_Witness ==
    /\ last.op = "write_ios" /\ last.res # "ok"
    /\ Len(ios) = 2
    /\ Cardinality(HookCalls(last, "mkdir")) = 2
    /\ Destination(last.path, ioPath[ios[1][2]]) \in files
    /\ Destination(last.path, ioPath[ios[2][2]]) \notin files

\* C15: a write_ios in which every write succeeds calls _on_write once
\* for each registered resource, with the root joined with the path for
\* a relative path and with the path itself for an absolute one, after a
\* mkdir of that destination's parent; the file is then on disk.
C15_WritesEachResourceOnce ==
    [][(last'.op = "write_ios" /\ last'.res = "ok") =>
        LET h == last'.hooks
            writes == HookCalls(last', "io._on_write")
        IN /\ Cardinality(writes) = Len(ios)
           /\ \A i \in DOMAIN ios :
                 LET io_ == ios[i][2]
                     dest == Destination(last'.path, ioPath[io_])
                     own == {j \in writes : h[j][4] = io_}
                 IN /\ Cardinality(own) = 1
                    /\ \A j \in own :
                          /\ h[j][2] = dest /\ h[j][3] = "ok"
                          /\ \E k \in HookCalls(last', "mkdir") :
                                /\ k < j
                                /\ h[k][2] = SubSeq(dest, 1, Len(dest) - 1)
                                /\ h[k][3] = "ok"
                    /\ dest \in files'
                    /\ ioPath[io_][1] = "/" =>
                          SubSeq(dest, 1, Len(last'.path)) # last'.path]_vars

\* C15 witness: a write_ios over a relative and an absolute resource
\* returned, with a file under the root and a file at the absolute path.
C15_Witness ==
    /\ last.op = "write_ios" /\ last.res = "ok"
    /\ \E i, j \in DOMAIN ios :
          /\ ioPath[ios[i][2]][1] # "/"
          /\ ioPath[ios[j][2]][1] = "/"
          /\ last.path \o ioPath[ios[i][2]] \in files
          /\ ioPath[ios[j][2]] \in files
          /\ last.path \o Tail(ioPath[ios[j][2]]) \notin files

\* C16: a spec restored in portable mode (serializing is True) whose
\* __setstate__ returns is among the dependents of the resource it is
\* bound to, that resource is the one registered under the key of its
\* (group, path), and the manager's invariant check, passing before the
\* read, passes after it.
C16_PortableRestoreRegisters ==
    [][(/\ last'.op = "read_spec" /\ last'.res = "ok"
        /\ serializing = "True") =>
           /\ last'.spec \in specAlloc'
           /\ specIO'[last'.spec] = last'.io
           /\ last'.spec \in ioSpecs'[last'.io]
           /\ last'.io \in DictValues(ios')
           /\ DictGet(ios', _get_io_key(last'.group, last'.path)) = last'.io
           /\ IOManager_check_sanity => IOManager_check_sanity']_vars

\* C16 witness: a portable read returned a spec on a resource that had a
\* dependent already, and the invariant check passes.
C16_Witness ==
    /\ last.op = "read_spec" /\ last.res = "ok" /\ serializing = "True"
    /\ last.spec \in ioSpecs[last.io]
    /\ Cardinality(ioSpecs[last.io]) = 2
    /\ IOManager_check_sanity

\* Two specs of the graph G that are dependents of one resource.
Sharing(G, s, t) ==
    /\ s # t /\ G.specIO[s] = G.specIO[t]
    /\ {s, t} \subseteq G.ioSpecs[G.specIO[s]]

\* C17: two specs that share a resource when a snapshot is taken share it
\* in the captured graph, and after the load the two specs built for
\* them are bound to one resource of the restored graph, whose dependents
\* are exactly the specs built for the captured dependents, with no
\* add_spec call made.
C17_SnapshotKeepsSharing ==
    [][/\ (last'.op = "dump" /\ last'.res = "ok") =>
             \A s, t \in pickled'.specs :
                 Sharing([specIO |-> specIO, ioSpecs |-> ioSpecs], s, t) =>
                    /\ Sharing(pickled', s, t)
                    /\ pickled'.ioSpecs[specIO[s]] = ioSpecs[specIO[s]]
       /\ last'.op = "load" =>
             \A s, t \in pickled.specs :
                 Sharing(pickled, s, t) =>
                    LET rs == Memo(pickled.specs, s)
                        rt == Memo(pickled.specs, t)
                        r == restored'.specIO[rs]
                    IN /\ rs # rt /\ {rs, rt} \subseteq restored'.specs
                       /\ r \in restored'.ios
                       /\ restored'.specIO[rt] = r
                       /\ restored'.ioSpecs[r] =
                             {Memo(pickled.specs, c) :
                                c \in pickled.ioSpecs[pickled.specIO[s]]}
                       /\ {rs, rt} \subseteq restored'.ioSpecs[r]
                       /\ restored'.ioPath[r]
                             = pickled.ioPath[pickled.specIO[s]]
                       /\ ioSpecs' = ioSpecs]_vars

\* C17 witness: a snapshot-mode load has rebuilt two specs that shared a
\* resource in the snapshot, and they share the restored one.
C17_Witness ==
    /\ last.op = "load"
    /\ \E s, t \in pickled.specs : Sharing(pickled, s, t)
    /\ \E s, t \in restored.specs : Sharing(restored, s, t)
    /\ serializing = "False"

\* C18: no sequence of new_spec, add_spec, del_spec, update_path,
\* get_or_create_io and restore_io calls makes _del_io raise "specs must
\* be deleted beforehand", the one RuntimeError a del_spec can end with:
\* the manager never retires a resource that still has dependents.
C18_NoDanglingDependentsError ==
    last.op = "del_spec" => last.res # "RuntimeError"

\* C18 witness: del_spec retired, through _del_io, a resource that
\* restore_io had registered under a second key.
C18_Witness ==
    /\ last.op = "del_spec" /\ last.res = "ok"
    /\ ioSpecs[last.io] = {}
    /\ inverse[last.io] = NoKey
    /\ last.io \in DictValues(ios)

\* The '/'-separated segments of a path: its parts, an empty segment
\* standing before the first '/' of an absolute path, and "." for the
\* empty path.
Segments(path) ==
    IF path = <<>> THEN <<".">>
    ELSE IF path = <<"/">> THEN <<"", "">>
    ELSE IF path[1] = "/" THEN <<"">> \o Tail(path)
    ELSE path

\* The depth counter after the first k segments: up by one for every
\* segment that is neither "." nor "..", down by one for every "..".
Depth(segs, k) ==
    Cardinality({i \in 1..k : segs[i] \notin {".", ".."}})
        - Cardinality({i \in 1..k : segs[i] = ".."})

\* C19: is_in_root(path) is False if and only if the depth counter is
\* negative after some segment of the path, and True otherwise.
C19_IsInRoot ==
    last.op = "is_in_root" =>
        /\ last.res \in {"True", "False"}
        /\ last.res = "False" <=>
              \E k \in 1..Len(Segments(last.path)) :
                  Depth(Segments(last.path), k) < 0

\* C19 witness: is_in_root("a/../../b") returned False.
C19_Witness ==
    /\ last.op = "is_in_root" /\ last.res = "False"
    /\ last.path = <<"a", "..", "..", "b">>

\* C20: with callers passing a group that is not None, every key (g, p)
\* of the index has g = None if and only if p is absolute, after any
\* sequence of new_spec, del_spec and update_path calls.
C20_KeyRule ==
    \A i \in DOMAIN ios :
        (ios[i][1][1] = None) <=> is_absolute(ios[i][1][2])

====
